---- MODULE Spec2Model ----
(***************************************************************************)
(* Metadata resolution, merge and chunked batch orchestration of the       *)
(* GameScrapper-Manager: scraping.py (merge_metadata, the identifier       *)
(* tiers, igdb_scraper, scrape_igdb_then_steam) and gui.py                 *)
(* (ScrapeBatchWorker, scrape_all, _start_scrape_chunk, _finish_scraping). *)
(***************************************************************************)
EXTENDS Integers, Sequences, FiniteSets, TLC

(***************************************************************************)
(* PART 1 - merge_metadata (scraping.py 932-1045)                          *)
(*                                                                         *)
(* A metadata dict is a record over the keys below.  A key the dict does   *)
(* not hold has the value NoKey (scalar keys) or NoList (list keys), so    *)
(* that `key in data` is "value is not NoKey/NoList".  None and "" are     *)
(* both falsy and never told apart by merge_metadata; both are "".         *)
(***************************************************************************)
NoKey == "<absent>"

NoList == << "<absent>" >>

ListKeys == {"screenshots", "trailers"}

IdKeys == {"steam_app_id", "igdb_id"}

ScalarKeys == {"developer", "cover_url", "description"}

MarkerKeys == {"steam_link", "igdb_link"}

Keys == ListKeys \cup IdKeys \cup ScalarKeys \cup MarkerKeys

\* len(str) of the description values used by the inputs
StrLen(s) ==
    CASE s = NoKey -> 0
      [] s = "" -> 0
      [] s = "x" -> 1
      [] s = "yy" -> 2
      [] s = "zzz" -> 3
      [] OTHER -> 4

\* `key in data`
HasKey(data, k) == IF k \in ListKeys THEN data[k] # NoList ELSE data[k] # NoKey

\* Python truthiness of data.get(key): a missing key, "", None and [] are falsy
Truthy(data, k) ==
    IF k \in ListKeys THEN data[k] # NoList /\ data[k] # << >>
    ELSE data[k] # NoKey /\ data[k] # ""

\* the empty dict {}
EmptyDict == [k \in Keys |-> IF k \in ListKeys THEN NoList ELSE NoKey]

\* is_likely_steam_data: any of the store marker keys is present
\* (price, steamdb_link and microtrailers are carried by steam_link here:
\* the store fetcher sets them together)
is_likely_steam_data(data) ==
    HasKey(data, "steam_link") \/ HasKey(data, "steam_app_id")

\* is_likely_igdb_data: any of the library marker keys is present
\* (critic_rating, themes, player_perspective are carried by igdb_id)
is_likely_igdb_data(data) ==
    HasKey(data, "igdb_link") \/ HasKey(data, "igdb_id")

\* the seen-set loop of lines 981-996: append the truthy items of items
\* that are not in acc yet, in order
RECURSIVE AppendUnseen(_, _)
AppendUnseen(acc, items) ==
    IF items = << >> THEN acc
    ELSE LET it == Head(items)
             seen == {acc[i] : i \in 1..Len(acc)}
         IN  IF it # "" /\ it \notin seen
             THEN AppendUnseen(Append(acc, it), Tail(items))
             ELSE AppendUnseen(acc, Tail(items))

\* igdb_data.get(key, []) guarded by isinstance(igdb_items, list)
IgdbItems(igdb_data, k) == IF HasKey(igdb_data, k) THEN igdb_data[k] ELSE << >>

\* lines 978-998: store items first, then the unseen library items
MergedList(steam_value, igdb_items) ==
    AppendUnseen(AppendUnseen(<< >>, steam_value), igdb_items)

\* steam_data / igdb_data of lines 970-971
SteamData(primary, secondary) ==
    IF is_likely_steam_data(secondary) THEN secondary
    ELSE IF is_likely_steam_data(primary) THEN primary ELSE EmptyDict

IgdbData(primary, secondary) ==
    IF is_likely_igdb_data(secondary) THEN secondary
    ELSE IF is_likely_igdb_data(primary) THEN primary ELSE EmptyDict

\* the branch of lines 1018-1024 for a key none of the special cases took
DefaultBranch(primary, secondary, k, steam_value) ==
    IF ~Truthy(primary, k) THEN steam_value
    ELSE IF is_likely_steam_data(secondary) /\ ~is_likely_steam_data(primary)
         THEN steam_value
         ELSE primary[k]

\* one iteration of the loop of lines 974-1024 for key k; merged[k] starts
\* as primary[k] and no other iteration writes it
LoopKey(primary, secondary, k) ==
    LET steam_data == SteamData(primary, secondary)
        igdb_data == IgdbData(primary, secondary)
        steam_value == steam_data[k]
    IN  IF ~Truthy(steam_data, k) THEN primary[k]
        ELSE IF k \in ListKeys /\ HasKey(primary, k)
             THEN MergedList(steam_value, IgdbItems(igdb_data, k))
        ELSE IF k = "cover_url" THEN steam_value
        ELSE IF k = "description"
             THEN IF StrLen(steam_value) > StrLen(primary[k])
                  THEN steam_value ELSE primary[k]
        ELSE IF k \in IdKeys THEN steam_value
        ELSE DefaultBranch(primary, secondary, k, steam_value)

\* lines 1026-1035: "Ensure we have both IDs if available in either source"
EnsureIdMut(primary, secondary, k, looped) ==
    LET first == IF k = "steam_app_id" THEN SteamData(primary, secondary)
                 ELSE IgdbData(primary, secondary)
    IN  IF HasKey(first, k) THEN first[k] ELSE looped

EnsureId(primary, secondary, k, looped) ==
    LET steam_data == SteamData(primary, secondary)
        igdb_data == IgdbData(primary, secondary)
        first == IF k = "steam_app_id" THEN steam_data ELSE igdb_data
        other == IF k = "steam_app_id" THEN igdb_data ELSE steam_data
    IN  IF Truthy(first, k) THEN first[k]
        ELSE IF Truthy(other, k) THEN other[k]
        ELSE looped

\* merge_metadata(primary, secondary) without the _merge_debug diagnostics
merge_metadata(primary, secondary) ==
    [k \in Keys |->
        LET looped == LoopKey(primary, secondary, k)
        IN  IF k \in IdKeys THEN EnsureId(primary, secondary, k, looped)
            ELSE looped]

(***************************************************************************)
(* Inputs of the merge: a store-sourced partial record and a               *)
(* library-sourced one, as get_store_metadata and igdb_scraper shape them, *)
(* and the same records without the other source's link keys.              *)
(***************************************************************************)
StoreRecords ==
    [steam_link : {"L"},
     igdb_link : {NoKey, "L"},
     steam_app_id : {"", "42"},
     igdb_id : {NoKey, "8"},
     developer : {"", "dS"},
     cover_url : {"", "cS"},
     description : {"", "yy"},
     screenshots : {<< >>, <<"s1", "s2">>, <<"s1", "s1">>},
     trailers : {NoList, <<"t1">>}]

LibraryRecords ==
    [steam_link : {NoKey, ""},
     igdb_link : {"L"},
     steam_app_id : {NoKey, "", "43"},
     igdb_id : {"", "7"},
     developer : {"", "dL"},
     cover_url : {"", "cL"},
     description : {"x", "zzz"},
     screenshots : {NoList, <<"s2", "s3">>},
     trailers : {<< >>, <<"t1", "t2">>}]

\* tagged by the markers of one source only
StoreOnly(r) == is_likely_steam_data(r) /\ ~is_likely_igdb_data(r)

LibraryOnly(r) == is_likely_igdb_data(r) /\ ~is_likely_steam_data(r)

(***************************************************************************)
(* PART 2 - identifier resolution (scraping.py 240-264, 628-649, 652-889,  *)
(* 1052-1244).  A search result is [id, score, exact]: score is            *)
(* _score_name(title, name) and exact is                                   *)
(* name.strip().lower() == title.strip().lower().  The two are independent *)
(* inputs: with a case-sensitive token_set_ratio a name that differs from  *)
(* the title only in case scores below 100.                                *)
(***************************************************************************)
auto_accept_score == 92

MaxResults == 2

Scores == {60, auto_accept_score - 1, auto_accept_score}

\* None / "" of an identifier
NoId == ""

IgdbIdAt(i) == <<"i1", "i2", "i3">>[IF i <= 3 THEN i ELSE 3]

SteamIdAt(i) == <<"a1", "a2", "a3">>[IF i <= 3 THEN i ELSE 3]

\* the result lists a search endpoint can answer with; ids follow positions
IgdbResultLists ==
    UNION {{[i \in 1..n |-> [id |-> IgdbIdAt(i), score |-> f[i][1], exact |-> f[i][2]]] :
                f \in [1..n -> Scores \X BOOLEAN]} : n \in 0..MaxResults}

SteamResultLists ==
    UNION {{[i \in 1..n |-> [id |-> SteamIdAt(i), score |-> f[i], exact |-> FALSE]] :
                f \in [1..n -> Scores]} : n \in 0..MaxResults}

\* the comparison of lines 264, 649 and 764
AcceptsMut(score, threshold) == score > threshold

Accepts(score, threshold) == score >= threshold

\* max(candidates, key=score): the first element of the greatest score
RECURSIVE BestFrom(_, _)
BestFrom(best, items) ==
    IF items = << >> THEN best
    ELSE BestFrom(IF Head(items).score > best.score THEN Head(items) ELSE best,
                  Tail(items))

Best(items) == BestFrom(Head(items), Tail(items))

\* list.sort(key=score, reverse=True): stable, greatest score first
RECURSIVE InsertDesc(_, _)
InsertDesc(sorted, x) ==
    IF sorted = << >> THEN <<x>>
    ELSE IF Head(sorted).score >= x.score
         THEN <<Head(sorted)>> \o InsertDesc(Tail(sorted), x)
         ELSE <<x>> \o sorted

RECURSIVE SortDesc(_)
SortDesc(items) ==
    IF items = << >> THEN << >>
    ELSE LET n == Len(items)
         IN  InsertDesc(SortDesc(SubSeq(items, 1, n - 1)), items[n])

\* the first result whose name equals the title (lines 744-748), or none
RECURSIVE FirstExact(_)
FirstExact(items) ==
    IF items = << >> THEN << >>
    ELSE IF Head(items).exact THEN <<Head(items)>> ELSE FirstExact(Tail(items))

\* the fuzzy tier: the best result if its score is accepted (lines 257-264,
\* 641-649, 751-765); << >> is "no identifier"
FuzzyPickMut(items, threshold) ==
    IF items = << >> THEN << >> ELSE <<Best(items)>>

FuzzyPick(items, threshold) ==
    IF items = << >> THEN << >>
    ELSE IF Accepts(Best(items).score, threshold) THEN <<Best(items)>> ELSE << >>

\* get_app_id_from_title / get_igdb_id_from_title: the id or None
IdFromTitle(items, threshold) ==
    LET pick == FuzzyPick(items, threshold)
    IN  IF pick = << >> THEN NoId ELSE pick[1].id

get_app_id_from_title(steamItems, threshold) == IdFromTitle(steamItems, threshold)

\* find_candidates_for_title_igdb / find_candidates_for_title: a second
\* query of the same endpoint, scored and sorted; it answers with the same
\* results, with nothing (network failure) or with another list
OtherCandidates == <<[id |-> "i9", score |-> 60, exact |-> FALSE]>>

find_candidates(items, mode) ==
    IF mode = "same" THEN SortDesc(items)
    ELSE IF mode = "other" THEN OtherCandidates ELSE << >>

get_igdb_id_from_title(igdbItems, mode, threshold) ==
    IdFromTitle(find_candidates(igdbItems, mode), threshold)

\* the three shapes a scraper returns: a metadata record, a dict with
\* __candidates__ or a dict with __error__
Outcome(kind, meta, cands) ==
    [kind |-> kind, meta |-> meta, cands |-> cands, id |-> NoId,
     storeId |-> NoId, tiers |-> << >>]

\* what get_app_id_from_title / get_igdb_id_from_title return: an id or None
IdOutcome(id) ==
    [kind |-> "id", meta |-> EmptyDict, cands |-> << >>, id |-> id,
     storeId |-> NoId, tiers |-> << >>]

NoOutcome == Outcome("none", EmptyDict, << >>)

\* the record igdb_scraper builds from a match (lines 861-889); crossRef is
\* the store id of the match's storefront link, NoId if it has none
IgdbRecord(id, crossRef, fields) ==
    [steam_link |-> IF crossRef = NoId THEN "" ELSE "L",
     igdb_link |-> "L",
     steam_app_id |-> crossRef,
     igdb_id |-> id,
     developer |-> fields,
     cover_url |-> fields,
     description |-> IF fields = "" THEN "" ELSE "x",
     screenshots |-> << >>,
     trailers |-> << >>]

\* the record get_store_metadata returns for an app id (lines 376-422)
StoreRecord(appId, fields) ==
    [steam_link |-> "L",
     igdb_link |-> "L",
     steam_app_id |-> appId,
     igdb_id |-> NoKey,
     developer |-> fields,
     cover_url |-> fields,
     description |-> IF fields = "" THEN "" ELSE "yy",
     screenshots |-> << >>,
     trailers |-> NoList]

\* igdb_scraper, the title search of lines 701-786
IgdbTitleSearch(env, threshold) ==
    LET results == env.igdbResults
        cands == find_candidates(results, env.candMode)
        exact == FirstExact(results)
        pick == IF exact # << >> THEN exact ELSE FuzzyPick(SortDesc(results), threshold)
    IN  IF results = << >>
        THEN IF cands # << >> THEN Outcome("candidates", EmptyDict, cands)
             ELSE Outcome("error", EmptyDict, << >>)
        ELSE IF pick = << >> THEN Outcome("candidates", EmptyDict, cands)
        ELSE Outcome("record", IgdbRecord(pick[1].id, env.crossRef, env.igdbFields), << >>)

\* igdb_scraper(title, auto_accept_score, igdb_id): a given id is looked up
\* directly; an id the library does not know falls back to the title search
igdb_scraper(env, threshold, igdb_id) ==
    IF igdb_id # NoId /\ env.igdbKnowsId
    THEN Outcome("record", IgdbRecord(igdb_id, env.crossRef, env.igdbFields), << >>)
    ELSE IgdbTitleSearch(env, threshold)

\* the store id tiers with the order of the first two swapped
ResolveStoreIdMut(env, threshold, primary, steam_app_id) ==
    LET fromIgdb == primary.steam_app_id
        given == IF fromIgdb # NoId THEN fromIgdb ELSE steam_app_id
        searched == IF given # NoId THEN given
                    ELSE get_app_id_from_title(env.steamResults, threshold)
    IN  [id |-> searched,
         tiers |-> <<"igdb">> \o (IF fromIgdb = NoId THEN <<"provided">> ELSE << >>)
                            \o (IF given = NoId THEN <<"title_search">> ELSE << >>)]

\* scrape_igdb_then_steam, lines 1088-1109: the Steam AppID to use and the
\* sources read for it, in order: the steam_app_id argument, the
\* steam_app_id of the IGDB record, get_app_id_from_title
ResolveStoreId(env, threshold, primary, steam_app_id) ==
    LET given == steam_app_id
        fromIgdb == IF given # NoId THEN given ELSE primary.steam_app_id
        searched == IF fromIgdb # NoId THEN fromIgdb
                    ELSE get_app_id_from_title(env.steamResults, threshold)
    IN  [id |-> searched,
         tiers |-> <<"provided">> \o (IF given = NoId THEN <<"igdb">> ELSE << >>)
                                \o (IF fromIgdb = NoId THEN <<"title_search">> ELSE << >>)]

SteamIdToUse(env, threshold, primary, steam_app_id) ==
    ResolveStoreId(env, threshold, primary, steam_app_id).id

\* scrape_igdb_then_steam(igdb_id, title, auto_accept_score, steam_app_id)
scrape_igdb_then_steam(env, threshold, igdb_id, steam_app_id) ==
    LET primary == igdb_scraper(env, threshold, igdb_id)
        appId == SteamIdToUse(env, threshold, primary.meta, steam_app_id)
        steam_metadata == IF appId # NoId THEN StoreRecord(appId, env.steamFields)
                          ELSE EmptyDict
    IN  IF primary.kind # "record" THEN primary
        ELSE [Outcome("record", merge_metadata(primary.meta, steam_metadata), << >>)
                EXCEPT !.storeId = appId,
                       !.tiers = ResolveStoreId(env, threshold, primary.meta,
                                                steam_app_id).tiers]

\* scrape_primary_then_igdb(app_id, title, auto_accept_score, igdb_id)
scrape_primary_then_igdb(env, threshold, app_id, igdb_id) ==
    LET appId == IF app_id # NoId THEN app_id
                 ELSE get_app_id_from_title(env.steamResults, threshold)
        secondary == igdb_scraper(env, threshold, igdb_id)
    IN  IF appId = NoId
        THEN Outcome("candidates", EmptyDict, find_candidates(env.steamResults, env.candMode))
        ELSE Outcome("record",
                     merge_metadata(StoreRecord(appId, env.steamFields), secondary.meta),
                     << >>)

\* what the two endpoints and the caller can supply for one title
Environments ==
    [igdbResults : IgdbResultLists,
     steamResults : SteamResultLists,
     candMode : {"same", "none", "other"},
     crossRef : {NoId, "x1"},
     igdbKnowsId : BOOLEAN,
     igdbFields : {"dL"},
     steamFields : {"dS"}]

VARIABLES
    storeRec,       \* the store-sourced input
    libRec,         \* the library-sourced input
    mergedSL,       \* merge_metadata(storeRec, libRec), EmptyDict before the call
    mergedLS,       \* merge_metadata(libRec, storeRec), EmptyDict before the call
    mergeDone,      \* which of the two calls have returned
    env,            \* the endpoints' answers for the title being resolved
    givenIgdbId,    \* the igdb_id argument, NoId for None
    givenAppId,     \* the steam_app_id / app_id argument, NoId for None
    givenScore,     \* the auto_accept_score argument
    rop,            \* the resolution function that was called, "idle" before
    rout,           \* what it returned
    games,          \* GameManager.games: the entry list
    cancelFlag,     \* GameManager._cancel_current_scrape
    remaining,      \* GameManager._remaining_chunks
    pending,        \* GameManager._pending_manual_matches, NoAttr when deleted
    processed,      \* the "processed" flag of every match-info dict created
    stats,          \* the stats dict of every run (self._scrape_stats)
    nRuns,          \* the number of scrape_all runs started
    workers,        \* every ScrapeBatchWorker created, in creation order
    eventQ,         \* worker signals queued for the GUI thread, in emission order
    timers,         \* QTimer.singleShot callbacks not yet fired, in order
    stack,          \* the GUI thread's call stack of handlers inside a nested event loop
    scrapeBtn,      \* scrape_btn.isEnabled()
    cancelBtn,      \* cancel_scrape_btn.isVisible()
    reports,        \* the completion reports shown so far
    cancelRequested,\* the runs the Cancel button was clicked for
    userMatches,    \* how often the user matched a single row by hand
    entry,          \* the stored entry _merge_and_apply_metadata is called for
    metadata,       \* the metadata dict it is called with
    applied         \* << >> before the call, the entry after it in a 1-tuple

mergeVars == <<storeRec, libRec, mergedSL, mergedLS, mergeDone>>

resolveVars == <<env, givenIgdbId, givenAppId, givenScore, rop, rout>>

batchVars == <<games, cancelFlag, remaining, pending, processed, stats, nRuns,
               workers, eventQ, timers, stack, scrapeBtn, cancelBtn, reports,
               cancelRequested, userMatches>>

applyVars == <<entry, metadata, applied>>

vars == <<mergeVars, resolveVars, batchVars, applyVars>>

\* the state of a part no call of the specification at hand touches
MergeIdle ==
    /\ storeRec = EmptyDict
    /\ libRec = EmptyDict
    /\ mergedSL = EmptyDict
    /\ mergedLS = EmptyDict
    /\ mergeDone = {}

\* hasattr(self, '_pending_manual_matches') is False
NoAttr == <<[row |-> 0, obj |-> 0]>>

\* no call of _merge_and_apply_metadata on its own
ApplyIdle ==
    /\ entry = << >>
    /\ metadata = << >>
    /\ applied = << >>

BatchIdle ==
    /\ games = << >>
    /\ cancelFlag = FALSE
    /\ remaining = << >>
    /\ pending = NoAttr
    /\ processed = << >>
    /\ stats = << >>
    /\ nRuns = 0
    /\ workers = << >>
    /\ eventQ = << >>
    /\ timers = << >>
    /\ stack = << >>
    /\ scrapeBtn = TRUE
    /\ cancelBtn = FALSE
    /\ reports = << >>
    /\ cancelRequested = {}
    /\ userMatches = 0

NoEnvironment ==
    [igdbResults |-> << >>, steamResults |-> << >>, candMode |-> "none",
     crossRef |-> NoId, igdbKnowsId |-> FALSE, igdbFields |-> "dL", steamFields |-> "dS"]

ResolveIdle ==
    /\ env = NoEnvironment
    /\ givenIgdbId = NoId
    /\ givenAppId = NoId
    /\ givenScore = auto_accept_score
    /\ rop = "idle"
    /\ rout = NoOutcome

InitMerge ==
    /\ storeRec \in StoreRecords
    /\ libRec \in LibraryRecords
    /\ mergedSL = EmptyDict
    /\ mergedLS = EmptyDict
    /\ mergeDone = {}
    /\ ResolveIdle
    /\ BatchIdle
    /\ ApplyIdle

\* the call with the store record as primary (scrape_primary_then_igdb, 1224)
MergeStoreFirst ==
    /\ "SL" \notin mergeDone
    /\ mergedSL' = merge_metadata(storeRec, libRec)
    /\ mergeDone' = mergeDone \cup {"SL"}
    /\ UNCHANGED <<storeRec, libRec, mergedLS, resolveVars, batchVars, applyVars>>

\* the call with the library record as primary (scrape_igdb_then_steam, 1129)
MergeLibraryFirst ==
    /\ "LS" \notin mergeDone
    /\ mergedLS' = merge_metadata(libRec, storeRec)
    /\ mergeDone' = mergeDone \cup {"LS"}
    /\ UNCHANGED <<storeRec, libRec, mergedSL, resolveVars, batchVars, applyVars>>

NextMerge == MergeStoreFirst \/ MergeLibraryFirst

SpecMerge == InitMerge /\ [][NextMerge]_vars

(***************************************************************************)
(* The resolution functions applied to one title                           *)
(***************************************************************************)
InitResolve ==
    /\ MergeIdle
    /\ BatchIdle
    /\ ApplyIdle
    /\ env \in Environments
    /\ givenIgdbId \in {NoId, "g1"}
    /\ (givenIgdbId = NoId => ~env.igdbKnowsId)
    /\ givenAppId \in {NoId, "e1"}
    /\ givenScore = auto_accept_score
    /\ rop = "idle"
    /\ rout = NoOutcome

Returns(op, outcome) ==
    /\ rop = "idle"
    /\ rop' = op
    /\ rout' = outcome
    /\ UNCHANGED <<env, givenIgdbId, givenAppId, givenScore, mergeVars, batchVars, applyVars>>

CallGetAppIdFromTitle ==
    Returns("get_app_id_from_title",
            IdOutcome(get_app_id_from_title(env.steamResults, auto_accept_score)))

CallGetIgdbIdFromTitle ==
    Returns("get_igdb_id_from_title",
            IdOutcome(get_igdb_id_from_title(env.igdbResults, env.candMode,
                                             auto_accept_score)))

CallIgdbScraper ==
    Returns("igdb_scraper", igdb_scraper(env, auto_accept_score, givenIgdbId))

CallScrapeIgdbThenSteam ==
    Returns("scrape_igdb_then_steam",
            scrape_igdb_then_steam(env, auto_accept_score, givenIgdbId, givenAppId))

CallScrapePrimaryThenIgdb ==
    Returns("scrape_primary_then_igdb",
            scrape_primary_then_igdb(env, auto_accept_score, givenAppId, givenIgdbId))

\* get_store_metadata(app_id, title), lines 301-422: without an app id the
\* empty record of lines 302-320 (no steam_app_id key, steam_link ""), with
\* one the record of the store's answer or, when the request or its parsing
\* fails, the fallback record of lines 405-422
get_store_metadata(appId, fields, ok) ==
    IF appId = NoId
    THEN [StoreRecord(NoKey, "") EXCEPT !.steam_link = ""]
    ELSE StoreRecord(appId, IF ok THEN fields ELSE "")

CallGetStoreMetadata ==
    \E ok \in BOOLEAN :
        Returns("get_store_metadata",
                Outcome("record", get_store_metadata(givenAppId, env.steamFields, ok),
                        << >>))

NextResolve ==
    \/ CallGetStoreMetadata
    \/ CallGetAppIdFromTitle
    \/ CallGetIgdbIdFromTitle
    \/ CallIgdbScraper
    \/ CallScrapeIgdbThenSteam
    \/ CallScrapePrimaryThenIgdb

SpecResolve == InitResolve /\ [][NextResolve]_vars

(***************************************************************************)
(* PART 3 - the chunked batch run (gui.py): ScrapeBatchWorker.run on the   *)
(* worker thread, and on the GUI thread scrape_all, _start_scrape_chunk    *)
(* and its signal handlers, _process_pending_manual_matches,               *)
(* _finish_scraping, force_cancel_operation and run_match_dialog_for_row.  *)
(*                                                                         *)
(* The GUI thread runs one handler at a time.  A handler that opens a      *)
(* modal dialog (exec_) or calls processEvents() runs a nested event loop: *)
(* queued worker signals and due timers are dispatched inside it, on top   *)
(* of the suspended handler.  stack holds the suspended handlers; a frame  *)
(* with pc "exec" waits for the user to close its dialog, one with pc "pe" *)
(* is inside processEvents().  The user can reach the main window's        *)
(* buttons only when no modal dialog is open, i.e. when stack is empty.    *)
(***************************************************************************)
MaxGames == 3

\* CHUNK_SIZE is 50 in gui.py; scaled down so that MaxGames entries make
\* more than one chunk
CHUNK_SIZE == 2

MaxRuns == 1

MaxUserMatches == 1

Rows == 1..MaxGames

\* what scrape_igdb_then_steam and the checks of lines 809-840 leave the
\* worker with: a dict with __candidates__, {} (an __error__ dict or a
\* record without developer, publisher and genres), or a record with or
\* without a store id
ScrapeResults == {"candidates", "empty", "record_app", "record_noapp"}

\* what the manual-match dialog and the scrape that follows end in:
\* rejected or accepted without a usable choice or scrape, a record, or a
\* dict with only __error__, which lines 4119-4122 take for a record
DialogAnswers == {"failed", "record_app", "record_noapp", "record_noid"}

\* what run_match_dialog_for_row's dialog and scrape end in: rejected, a
\* record for the chosen store id, or the fallback of lines 6400-6418
UserAnswers == {"rejected", "record_user", "fallback"}

Frame(k, pc, run, w, todo, items, i) ==
    [k |-> k, pc |-> pc, run |-> run, w |-> w, todo |-> todo, items |-> items, i |-> i]

FinishFrame(run) == Frame("finish", "exec", run, 0, << >>, << >>, 0)

Top == stack[Len(stack)]

Pop(st) == SubSeq(st, 1, Len(st) - 1)

\* the GUI thread is in an event loop: the main one or a nested one
CanDispatch == IF stack = << >> THEN TRUE ELSE Top.pc \in {"exec", "pe"}

\* a click reaches the main window from the main event loop or from a
\* processEvents() call, never while a modal dialog is open
UserCanClick == IF stack = << >> THEN TRUE ELSE Top.pc = "pe"

HasPendingAttr == pending # NoAttr

\* the whole backlog as one chunk
ChunksMut(rows) == IF rows = << >> THEN << >> ELSE <<rows>>

\* rows_to_process[i:i + CHUNK_SIZE] for i in range(0, len, CHUNK_SIZE)
RECURSIVE Chunks(_)
Chunks(rows) ==
    IF rows = << >> THEN << >>
    ELSE IF Len(rows) <= CHUNK_SIZE THEN <<rows>>
    ELSE <<SubSeq(rows, 1, CHUNK_SIZE)>> \o Chunks(SubSeq(rows, CHUNK_SIZE + 1, Len(rows)))

\* [i for i, g in enumerate(self.games) if not str(g.get("app_id") or "").strip()]
RowsToProcess == SelectSeq([i \in 1..Len(games) |-> i], LAMBDA i : games[i].app_id = "")

NewWorker(chunk, run) ==
    [run |-> run, rows |-> chunk, idx |-> 1, cancelled |-> FALSE, phase |-> "loop",
     stall |-> FALSE, errored |-> FALSE]

Event(w, type, row, meta, skip) ==
    [w |-> w, type |-> type, row |-> row, meta |-> meta, skip |-> skip]

\* self._pending_manual_matches[row_index] = {...}: a dict keeps the
\* position of a key it already holds
PutPending(pend, row, obj) ==
    LET base == IF pend = NoAttr THEN << >> ELSE pend
    IN  IF \E j \in 1..Len(base) : base[j].row = row
        THEN [j \in 1..Len(base) |->
                IF base[j].row = row THEN [row |-> row, obj |-> obj] ELSE base[j]]
        ELSE Append(base, [row |-> row, obj |-> obj])

\* the app_id / steam_app_id of the metadata a result carries
MetaAppId(result) ==
    CASE result = "record_app" -> "m"
      [] result = "record_user" -> "u"
      [] OTHER -> ""

\* the igdb_id of the metadata a result carries: "" where the key is
\* missing or empty
MetaIgdbId(result) ==
    CASE result \in {"record_app", "record_noapp"} -> "i"
      [] result = "record_user" -> "g"
      [] OTHER -> ""

\* _merge_and_apply_metadata that copies the metadata's ids as they are
ApplyMetadataMut(gs, row, result) ==
    [gs EXCEPT ![row].app_id = MetaAppId(result), ![row].igdb_id = MetaIgdbId(result)]

\* _merge_and_apply_metadata, lines 5294-5316 and 5321-5357: a non-empty
\* store id of the metadata is written to the entry, and of the other
\* keys those with a non-empty value
ApplyMetadata(gs, row, result) ==
    [gs EXCEPT ![row].app_id = IF MetaAppId(result) # "" THEN MetaAppId(result) ELSE @,
               ![row].igdb_id = IF MetaIgdbId(result) # "" THEN MetaIgdbId(result) ELSE @]

Report(run, st, by) ==
    [run |-> run, total |-> st[run].total, successful |-> st[run].successful,
     failed |-> st[run].failed, manual_needed |-> st[run].manual_needed,
     by |-> by, cancelled |-> run \in cancelRequested]

\* _finish_scraping up to msg_box.exec_() (lines 4442-4500), called from a
\* handler whose own frames are baseStack and whose stats are st
FinishScraping(run, by, baseStack, st) ==
    /\ pending' = NoAttr
    /\ scrapeBtn' = TRUE
    /\ cancelBtn' = FALSE
    /\ reports' = Append(reports, Report(run, st, by))
    /\ stack' = Append(baseStack, FinishFrame(run))

\* _start_scrape_chunk (lines 4258-4440)
StartScrapeChunk(chunk, run, baseStack) ==
    IF cancelFlag
    THEN /\ FinishScraping(run, "start_chunk", baseStack, stats)
         /\ UNCHANGED workers
    ELSE /\ workers' = Append(workers, NewWorker(chunk, run))
         /\ stack' = baseStack
         /\ UNCHANGED <<pending, scrapeBtn, cancelBtn, reports>>

InitBatch ==
    /\ MergeIdle
    /\ ResolveIdle
    /\ ApplyIdle
    /\ games \in [Rows -> [app_id : {"", "u"}, igdb_id : {"", "g"}, title_ok : BOOLEAN]]
    \* an entry resolved earlier has both ids, one in the backlog has none
    /\ \A i \in Rows : games[i].igdb_id = "" <=> games[i].app_id = ""
    \* the title is read only of a row in the backlog
    /\ \A i \in Rows : games[i].app_id # "" => games[i].title_ok
    /\ cancelFlag = FALSE
    /\ remaining = << >>
    /\ pending = NoAttr
    /\ processed = << >>
    /\ stats = << >>
    /\ nRuns = 0
    /\ workers = << >>
    /\ eventQ = << >>
    /\ timers = << >>
    /\ stack = << >>
    /\ scrapeBtn = TRUE
    /\ cancelBtn = FALSE
    /\ reports = << >>
    /\ cancelRequested = {}
    /\ userMatches = 0

\* scrape_all (lines 4186-4256), with the first _start_scrape_chunk it calls
ScrapeAll ==
    /\ UserCanClick
    /\ scrapeBtn
    /\ nRuns < MaxRuns
    /\ RowsToProcess # << >>
    /\ LET chunks == Chunks(RowsToProcess)
           run == nRuns + 1
       IN  /\ nRuns' = run
           /\ stats' = Append(stats, [total |-> Len(RowsToProcess), successful |-> 0,
                                      failed |-> 0, manual_needed |-> 0])
           /\ pending' = IF HasPendingAttr THEN pending ELSE << >>
           /\ scrapeBtn' = FALSE
           /\ cancelBtn' = TRUE
           /\ cancelFlag' = FALSE
           /\ remaining' = Tail(chunks)
           /\ workers' = Append(workers, NewWorker(Head(chunks), run))
    /\ UNCHANGED <<games, processed, eventQ, timers, stack, reports,
                   cancelRequested, userMatches, mergeVars, resolveVars, applyVars>>

(***************************************************************************)
(* ScrapeBatchWorker.run (lines 764-850), on the worker's thread           *)
(***************************************************************************)
\* a worker that writes the id it is about to look up into the entry itself
WorkerLoopMut(w) ==
    /\ workers[w].phase = "loop"
    /\ LET wk == workers[w]
           row == wk.rows[wk.idx]
       IN  IF wk.idx > Len(wk.rows) \/ wk.cancelled
           THEN /\ workers' = [workers EXCEPT ![w].phase = "done"]
                /\ eventQ' = Append(eventQ, Event(w, "finished", 0, "none", FALSE))
                /\ games' = games
           ELSE /\ workers' = [workers EXCEPT ![w].phase = "scraping"]
                /\ eventQ' = Append(eventQ, Event(w, "row_started", row, "none", FALSE))
                /\ games' = [games EXCEPT ![row].igdb_id = "i"]
    /\ UNCHANGED <<cancelFlag, remaining, pending, processed, stats, nRuns,
                   timers, stack, scrapeBtn, cancelBtn, reports, cancelRequested,
                   userMatches, mergeVars, resolveVars, applyVars>>

\* the top of the for loop: the cancellation check, row_started, and the
\* skip of a row that already has an app_id; a row starts at its check
WorkerLoop(w) ==
    /\ workers[w].phase = "loop"
    /\ LET wk == workers[w]
           row == wk.rows[wk.idx]
       IN  IF wk.idx > Len(wk.rows) \/ wk.cancelled
           THEN \* the loop ends; finally: finished.emit(processed)
                /\ workers' = [workers EXCEPT ![w].phase = "done"]
                /\ eventQ' = Append(eventQ, Event(w, "finished", 0, "none", FALSE))
           ELSE IF ~games[row].title_ok
           THEN \* row_started.emit raises on a title that is no str:
                \* except: error.emit; finally: finished.emit
                /\ workers' = [workers EXCEPT ![w].phase = "done", ![w].errored = TRUE]
                /\ eventQ' = eventQ \o <<Event(w, "error", row, "none", FALSE),
                                         Event(w, "finished", 0, "none", FALSE)>>
           ELSE IF games[row].app_id # ""
           THEN \* already resolved: row_finished.emit(row_index, {})
                /\ workers' = [workers EXCEPT ![w].idx = wk.idx + 1]
                /\ eventQ' = eventQ \o <<Event(w, "row_started", row, "none", FALSE),
                                         Event(w, "row_finished", row, "empty", TRUE)>>
           ELSE /\ workers' = [workers EXCEPT ![w].phase = "scraping"]
                /\ eventQ' = Append(eventQ, Event(w, "row_started", row, "none", FALSE))
    /\ UNCHANGED <<games, cancelFlag, remaining, pending, processed, stats, nRuns,
                   timers, stack, scrapeBtn, cancelBtn, reports, cancelRequested,
                   userMatches, mergeVars, resolveVars, applyVars>>

\* the row's result is emitted and the loop stays at the same row
WorkerScrapedMut(w) ==
    /\ workers[w].phase = "scraping"
    /\ \E result \in ScrapeResults :
          LET wk == workers[w]
          IN  /\ eventQ' = Append(eventQ, Event(w, "row_finished", wk.rows[wk.idx],
                                                result, FALSE))
              /\ workers' = [workers EXCEPT ![w].phase = "loop"]
    /\ UNCHANGED <<games, cancelFlag, remaining, pending, processed, stats, nRuns,
                   timers, stack, scrapeBtn, cancelBtn, reports, cancelRequested,
                   userMatches, mergeVars, resolveVars, applyVars>>

\* scrape_igdb_then_steam returned (lines 795-843)
WorkerScraped(w) ==
    /\ workers[w].phase = "scraping"
    /\ \E result \in ScrapeResults :
          LET wk == workers[w]
          IN  /\ eventQ' = Append(eventQ, Event(w, "row_finished", wk.rows[wk.idx],
                                                result, FALSE))
              /\ workers' = [workers EXCEPT ![w].idx = wk.idx + 1, ![w].phase = "loop"]
    /\ UNCHANGED <<games, cancelFlag, remaining, pending, processed, stats, nRuns,
                   timers, stack, scrapeBtn, cancelBtn, reports, cancelRequested,
                   userMatches, mergeVars, resolveVars, applyVars>>

(***************************************************************************)
(* The signal handlers of _start_scrape_chunk, on the GUI thread           *)
(***************************************************************************)
NextEvent == Head(eventQ)

Delivering(type) ==
    /\ CanDispatch
    /\ eventQ # << >>
    /\ NextEvent.type = type
    /\ eventQ' = Tail(eventQ)

\* on_row_started (lines 4295-4304)
OnRowStarted ==
    /\ Delivering("row_started")
    /\ workers' = [workers EXCEPT ![NextEvent.w].stall = TRUE,
                                  ![NextEvent.w].cancelled = IF cancelFlag THEN TRUE ELSE @]
    /\ UNCHANGED <<games, cancelFlag, remaining, pending, processed, stats, nRuns,
                   timers, stack, scrapeBtn, cancelBtn, reports, cancelRequested,
                   userMatches, mergeVars, resolveVars, applyVars>>

\* on_row_finished (lines 4306-4344)
OnRowFinished ==
    /\ Delivering("row_finished")
    /\ LET e == NextEvent
           run == workers[e.w].run
       IN  IF e.meta \in {"candidates", "empty"}
           THEN /\ processed' = Append(processed, FALSE)
                /\ pending' = PutPending(pending, e.row, Len(processed) + 1)
                /\ UNCHANGED <<games, stats>>
           ELSE /\ games' = ApplyMetadata(games, e.row, e.meta)
                /\ stats' = [stats EXCEPT ![run].successful = @ + 1]
                /\ UNCHANGED <<pending, processed>>
    /\ workers' = [workers EXCEPT ![NextEvent.w].stall = TRUE]
    /\ UNCHANGED <<cancelFlag, remaining, nRuns, timers, stack, scrapeBtn,
                   cancelBtn, reports, cancelRequested, userMatches, mergeVars,
                   resolveVars, applyVars>>

\* on_finished and on_error without their closing call of _finish_scraping
ChunkConcludedMut(run, by, checkPending) ==
    IF remaining # << >> /\ ~cancelFlag
    THEN /\ remaining' = Tail(remaining)
         /\ timers' = Append(timers, [k |-> "start_chunk", chunk |-> Head(remaining),
                                      run |-> run])
         /\ UNCHANGED <<pending, scrapeBtn, cancelBtn, reports, stack>>
    ELSE IF checkPending /\ HasPendingAttr /\ pending # << >>
    THEN /\ timers' = Append(timers, [k |-> "process_pending", chunk |-> << >>,
                                      run |-> run])
         /\ UNCHANGED <<remaining, pending, scrapeBtn, cancelBtn, reports, stack>>
    ELSE UNCHANGED <<remaining, timers, pending, scrapeBtn, cancelBtn, reports, stack>>

\* the branch on_finished and on_error share (lines 4355-4362, 4381-4386)
\* and what follows when there is no next chunk to start
ChunkConcluded(run, by, checkPending) ==
    IF remaining # << >> /\ ~cancelFlag
    THEN /\ remaining' = Tail(remaining)
         /\ timers' = Append(timers, [k |-> "start_chunk", chunk |-> Head(remaining),
                                      run |-> run])
         /\ UNCHANGED <<pending, scrapeBtn, cancelBtn, reports, stack>>
    ELSE IF checkPending /\ HasPendingAttr /\ pending # << >>
    THEN /\ timers' = Append(timers, [k |-> "process_pending", chunk |-> << >>,
                                      run |-> run])
         /\ UNCHANGED <<remaining, pending, scrapeBtn, cancelBtn, reports, stack>>
    ELSE /\ FinishScraping(run, by, stack, stats)
         /\ UNCHANGED <<remaining, timers>>

\* on_finished (lines 4346-4374)
OnFinished ==
    /\ Delivering("finished")
    /\ workers' = [workers EXCEPT ![NextEvent.w].stall = FALSE]
    /\ ChunkConcluded(workers[NextEvent.w].run, "on_finished", TRUE)
    /\ UNCHANGED <<games, cancelFlag, processed, stats, nRuns,
                   cancelRequested, userMatches, mergeVars, resolveVars, applyVars>>

\* on_error (lines 4376-4388)
OnError ==
    /\ Delivering("error")
    /\ workers' = [workers EXCEPT ![NextEvent.w].stall = FALSE]
    /\ ChunkConcluded(workers[NextEvent.w].run, "on_error", FALSE)
    /\ UNCHANGED <<games, cancelFlag, processed, stats, nRuns,
                   cancelRequested, userMatches, mergeVars, resolveVars, applyVars>>

\* the stall timer of a chunk expiring into a handler that cancels the worker
OnStallMut(w) ==
    /\ CanDispatch
    /\ workers[w].stall
    /\ workers' = [workers EXCEPT ![w].stall = FALSE, ![w].cancelled = TRUE]
    /\ UNCHANGED <<games, cancelFlag, remaining, pending, processed, stats, nRuns,
                   eventQ, timers, stack, scrapeBtn, cancelBtn, reports,
                   cancelRequested, userMatches, mergeVars, resolveVars, applyVars>>

\* the single-shot stall timer of a chunk (lines 4289-4292) expires after
\* STALL_TIMEOUT seconds without a row event: on_stall (lines 4390-4392)
\* sets the status text
OnStall(w) ==
    /\ CanDispatch
    /\ workers[w].stall
    /\ workers' = [workers EXCEPT ![w].stall = FALSE]
    /\ UNCHANGED <<games, cancelFlag, remaining, pending, processed, stats, nRuns,
                   eventQ, timers, stack, scrapeBtn, cancelBtn, reports,
                   cancelRequested, userMatches, mergeVars, resolveVars, applyVars>>

\* QTimer.singleShot(500, lambda: self._start_scrape_chunk(next_chunk, ...))
StartChunkTimer ==
    /\ CanDispatch
    /\ timers # << >>
    /\ Head(timers).k = "start_chunk"
    /\ timers' = Tail(timers)
    /\ StartScrapeChunk(Head(timers).chunk, Head(timers).run, stack)
    /\ UNCHANGED <<games, cancelFlag, remaining, processed, stats, nRuns, eventQ,
                   cancelRequested, userMatches, mergeVars, resolveVars, applyVars>>

(***************************************************************************)
(* _process_pending_manual_matches (lines 4044-4145)                       *)
(***************************************************************************)
\* the for loop from item i on: the next item not yet processed
RECURSIVE NextUnprocessed(_, _, _)
NextUnprocessed(items, i, proc) ==
    IF i > Len(items) THEN i
    ELSE IF proc[items[i].obj] THEN NextUnprocessed(items, i + 1, proc) ELSE i

\* continue the loop of frame fr at item i: open the next dialog, or leave
\* the loop and call _finish_scraping
PendingLoop(fr, i, baseStack, proc) ==
    LET n == NextUnprocessed(fr.items, i, proc)
    IN  IF n > Len(fr.items)
        THEN FinishScraping(fr.run, "process_pending", baseStack, stats')
        ELSE /\ stack' = Append(baseStack, [fr EXCEPT !.pc = "exec", !.i = n])
             /\ UNCHANGED <<pending, scrapeBtn, cancelBtn, reports>>

\* QTimer.singleShot(500, lambda: self._process_pending_manual_matches(stats))
ProcessPendingTimer ==
    /\ CanDispatch
    /\ timers # << >>
    /\ Head(timers).k = "process_pending"
    /\ timers' = Tail(timers)
    /\ stats' = stats
    /\ LET run == Head(timers).run
       IN  IF ~HasPendingAttr \/ pending = << >>
           THEN FinishScraping(run, "process_pending", stack, stats)
           ELSE PendingLoop(Frame("pending", "exec", run, 0, << >>, pending, 1),
                            1, stack, processed)
    /\ UNCHANGED <<games, cancelFlag, remaining, processed, nRuns, workers, eventQ,
                   cancelRequested, userMatches, mergeVars, resolveVars, applyVars>>

\* the dialog's outcome is counted and the item is left unprocessed
AnswerDialogWithMut(answer) ==
    /\ stack # << >>
    /\ Top.k = "pending"
    /\ Top.pc = "exec"
    /\ LET item == Top.items[Top.i]
       IN  /\ games' = ApplyMetadata(games, item.row, answer)
           /\ stats' = IF answer = "failed"
                       THEN [stats EXCEPT ![Top.run].failed = @ + 1]
                       ELSE [stats EXCEPT ![Top.run].successful = @ + 1]
           /\ processed' = processed
    /\ stack' = Append(Pop(stack), [Top EXCEPT !.pc = "pe"])
    /\ UNCHANGED <<cancelFlag, remaining, pending, nRuns, workers, eventQ, timers,
                   scrapeBtn, cancelBtn, reports, cancelRequested, userMatches,
                   mergeVars, resolveVars, applyVars>>

\* dlg.exec_() returned with the given outcome: lines 4084-4141, up to
\* processEvents()
AnswerDialogWith(answer) ==
    /\ stack # << >>
    /\ Top.k = "pending"
    /\ Top.pc = "exec"
    /\ LET item == Top.items[Top.i]
       IN  /\ games' = ApplyMetadata(games, item.row, answer)
           /\ stats' = IF answer = "failed"
                       THEN [stats EXCEPT ![Top.run].failed = @ + 1]
                       ELSE [stats EXCEPT ![Top.run].successful = @ + 1]
           /\ processed' = [processed EXCEPT ![item.obj] = TRUE]
    /\ stack' = Append(Pop(stack), [Top EXCEPT !.pc = "pe"])
    /\ UNCHANGED <<cancelFlag, remaining, pending, nRuns, workers, eventQ, timers,
                   scrapeBtn, cancelBtn, reports, cancelRequested, userMatches,
                   mergeVars, resolveVars, applyVars>>

AnswerDialog == \E answer \in DialogAnswers : AnswerDialogWith(answer)

\* processEvents() returned (line 4141): the next iteration, or line 4145
PendingContinue ==
    /\ stack # << >>
    /\ Top.k = "pending"
    /\ Top.pc = "pe"
    /\ stats' = stats
    /\ PendingLoop(Top, Top.i + 1, Pop(stack), processed)
    /\ UNCHANGED <<games, cancelFlag, remaining, processed, nRuns, workers, eventQ,
                   timers, cancelRequested, userMatches, mergeVars, resolveVars, applyVars>>

(***************************************************************************)
(* _finish_scraping after the report box (lines 4502-4521)                 *)
(***************************************************************************)
\* the user closes the report: the flag is reset and the chunks cleared
CloseReport ==
    /\ stack # << >>
    /\ Top.k = "finish"
    /\ Top.pc = "exec"
    /\ cancelFlag' = FALSE
    /\ remaining' = << >>
    /\ stack' = Append(Pop(stack), [Top EXCEPT !.pc = "pe"])
    /\ UNCHANGED <<games, pending, processed, stats, nRuns, workers, eventQ, timers,
                   scrapeBtn, cancelBtn, reports, cancelRequested, userMatches,
                   mergeVars, resolveVars, applyVars>>

\* processEvents() of line 4520 returned: _finish_scraping returns
FinishReturn ==
    /\ stack # << >>
    /\ Top.k = "finish"
    /\ Top.pc = "pe"
    /\ stack' = Pop(stack)
    /\ UNCHANGED <<games, cancelFlag, remaining, pending, processed, stats, nRuns,
                   workers, eventQ, timers, scrapeBtn, cancelBtn, reports,
                   cancelRequested, userMatches, mergeVars, resolveVars, applyVars>>

(***************************************************************************)
(* The Cancel button: clicked is connected to force_cancel_operation       *)
(* (line 1714) and to the cancel_handler of every chunk started so far     *)
(* (line 4429, never disconnected); the slots run in connection order.     *)
(***************************************************************************)
\* the click and force_cancel_operation up to its processEvents()
\* (lines 7027-7117)
CancelClick ==
    /\ UserCanClick
    /\ cancelBtn
    /\ cancelRequested' = cancelRequested \cup (1..nRuns)
    /\ workers' = IF workers = << >> THEN workers
                  ELSE [workers EXCEPT ![Len(workers)].cancelled = TRUE,
                                       ![Len(workers)].stall = FALSE]
    /\ remaining' = << >>
    /\ scrapeBtn' = TRUE
    /\ cancelBtn' = FALSE
    /\ cancelFlag' = FALSE
    /\ stack' = Append(stack, Frame("click", "pe", 0, 0, [i \in 1..Len(workers) |-> i],
                                     << >>, 0))
    /\ UNCHANGED <<games, pending, processed, stats, nRuns, eventQ, timers, reports,
                   userMatches, mergeVars, resolveVars, applyVars>>

\* the next slot: cancel_handler up to its processEvents() (lines 4394-4402),
\* or the end of the click
CancelHandlerBegin ==
    /\ stack # << >>
    /\ Top.k = "click"
    /\ Top.pc \in {"pe", "ret"}
    /\ Top.w = 0
    /\ IF Top.todo = << >>
       THEN /\ stack' = Pop(stack)
            /\ UNCHANGED <<workers, cancelFlag, scrapeBtn, cancelBtn>>
       ELSE /\ workers' = [workers EXCEPT ![Head(Top.todo)].cancelled = TRUE]
            /\ cancelFlag' = TRUE
            /\ scrapeBtn' = TRUE
            /\ cancelBtn' = FALSE
            /\ stack' = Append(Pop(stack), [Top EXCEPT !.pc = "pe", !.w = Head(Top.todo),
                                                       !.todo = Tail(Top.todo)])
    /\ UNCHANGED <<games, remaining, pending, processed, stats, nRuns, eventQ, timers,
                   reports, cancelRequested, userMatches, mergeVars, resolveVars, applyVars>>

\* cancel_handler after processEvents() (lines 4404-4420)
CancelHandlerFinish ==
    /\ stack # << >>
    /\ Top.k = "click"
    /\ Top.pc = "pe"
    /\ Top.w # 0
    /\ LET run == workers[Top.w].run
           m == stats[run].manual_needed
       IN  /\ stats' = IF m > 0
                       THEN [stats EXCEPT ![run].failed = @ + m, ![run].manual_needed = 0]
                       ELSE stats
           /\ FinishScraping(run, "cancel_handler",
                             Append(Pop(stack), [Top EXCEPT !.pc = "ret", !.w = 0]),
                             stats')
    /\ UNCHANGED <<games, cancelFlag, remaining, processed, nRuns, workers, eventQ,
                   timers, cancelRequested, userMatches, mergeVars, resolveVars, applyVars>>

(***************************************************************************)
(* run_match_dialog_for_row (lines 6308-6425): the user matches one row by *)
(* hand from the table's context menu                                      *)
(***************************************************************************)
OpenMatchDialog ==
    /\ UserCanClick
    /\ userMatches < MaxUserMatches
    \* the matches of interest are those made while a run is on
    /\ cancelBtn
    /\ \E row \in 1..Len(games) :
          stack' = Append(stack, Frame("match_row", "exec", 0, 0, << >>, << >>, row))
    /\ userMatches' = userMatches + 1
    /\ UNCHANGED <<games, cancelFlag, remaining, pending, processed, stats, nRuns,
                   workers, eventQ, timers, scrapeBtn, cancelBtn, reports,
                   cancelRequested, mergeVars, resolveVars, applyVars>>

\* the dialog returns (lines 6346-6418): rejected; accepted and the scrape
\* gave a record, which _merge_and_apply_metadata writes; or accepted and
\* the scrape gave nothing, and the chosen store id is written if the entry
\* has none or the user ticked overwrite
AnswerMatchDialog ==
    /\ stack # << >>
    /\ Top.k = "match_row"
    /\ \E answer \in UserAnswers, overwrite \in BOOLEAN :
          games' = CASE answer = "rejected" -> games
                     [] answer = "record_user" -> ApplyMetadata(games, Top.i, answer)
                     [] answer = "fallback" ->
                          IF overwrite \/ games[Top.i].app_id = ""
                          THEN [games EXCEPT ![Top.i].app_id = "u"]
                          ELSE games
    /\ stack' = Pop(stack)
    /\ UNCHANGED <<cancelFlag, remaining, pending, processed, stats, nRuns, workers,
                   eventQ, timers, scrapeBtn, cancelBtn, reports, cancelRequested,
                   userMatches, mergeVars, resolveVars, applyVars>>

\* what the program does by itself once the user has acted
SystemNext ==
    \/ \E w \in 1..Len(workers) : WorkerLoop(w)
    \/ \E w \in 1..Len(workers) : WorkerScraped(w)
    \/ \E w \in 1..Len(workers) : OnStall(w)
    \/ OnRowStarted
    \/ OnRowFinished
    \/ OnFinished
    \/ OnError
    \/ StartChunkTimer
    \/ ProcessPendingTimer
    \/ AnswerDialog
    \/ PendingContinue
    \/ CloseReport
    \/ FinishReturn
    \/ CancelHandlerBegin
    \/ CancelHandlerFinish
    \/ AnswerMatchDialog

NextBatch ==
    \/ ScrapeAll
    \/ CancelClick
    \/ OpenMatchDialog
    \/ SystemNext

SpecBatch == InitBatch /\ [][NextBatch]_vars

\* worker threads run, queued signals and due timers are delivered and
\* open dialogs are answered
SpecBatchFair == SpecBatch /\ WF_vars(SystemNext)

(***************************************************************************)
(* PART 6 - _merge_and_apply_metadata (gui.py 5268-5397) applied to one    *)
(* stored entry.  An entry and a metadata dict are records over EntryKeys; *)
(* a key the dict does not hold has the value NoKey (NoList for the keys   *)
(* that hold lists), None counts as a missing key.                         *)
(***************************************************************************)
EntryListKeys == {"image_cache_paths", "savegame_locations", "savegame_location"}

EntryKeys == {"app_id", "description", "steam_link", "microtrailer_cache_path"}
                \cup EntryListKeys

\* `key in d` / d.get(key) is not None
Holds(d, k) == IF k \in EntryListKeys THEN d[k] # NoList ELSE d[k] # NoKey

\* truthiness of d.get(key)
NonEmpty(d, k) ==
    IF k \in EntryListKeys THEN d[k] # NoList /\ d[k] # << >>
    ELSE d[k] # NoKey /\ d[k] # ""

\* `not metadata`: the dict has no key
EmptyMetadata(meta) == \A k \in EntryKeys : ~Holds(meta, k)

\* the app id in a store link, re.search(r"/app/(\d+)", steam_link)
LinkAppId(link) == IF link = "L" THEN "42" ELSE ""

\* lines 5290-5311: the app_id written from the metadata, if any
FoundAppId(meta) ==
    IF NonEmpty(meta, "app_id") /\ meta.app_id \notin {"N/A", "0"}
    THEN meta.app_id ELSE ""

\* the loop of lines 5320-5357 for key k: a value that is not None and not
\* a blank string is copied to the entry (an empty list is copied)
Copied(game, meta, k) ==
    IF k \in EntryListKeys
    THEN IF Holds(meta, k) THEN meta[k] ELSE game[k]
    ELSE IF NonEmpty(meta, k) THEN meta[k] ELSE game[k]

\* lines 5283-5285: the values kept for the restore
Existing(game, k) ==
    IF k = "savegame_locations" /\ ~NonEmpty(game, k)
    THEN IF Holds(game, "savegame_location") THEN game.savegame_location ELSE << >>
    ELSE IF Holds(game, k) THEN game[k]
    ELSE IF k \in EntryListKeys THEN << >> ELSE ""

RestoredKeys == {"image_cache_paths", "microtrailer_cache_path", "savegame_locations"}

\* the entry after the loop, with no restore of the cache paths
merge_and_apply_metadataMut(game, meta) ==
    [k \in EntryKeys |-> IF k = "app_id" THEN game[k] ELSE Copied(game, meta, k)]

\* _merge_and_apply_metadata(row_index, metadata) for the entry of the row,
\* up to line 5397 (what follows updates the table cells)
merge_and_apply_metadata(game, meta) ==
    LET looped == [k \in EntryKeys |->
                     IF k = "app_id"
                     THEN IF FoundAppId(meta) # "" THEN FoundAppId(meta) ELSE game[k]
                     ELSE Copied(game, meta, k)]
        linked == IF ~NonEmpty(looped, "app_id") /\ NonEmpty(meta, "steam_link")
                     /\ LinkAppId(meta.steam_link) # ""
                  THEN [looped EXCEPT !.app_id = LinkAppId(meta.steam_link)]
                  ELSE looped
        kept(k) == Existing(game, k)
    IN  IF EmptyMetadata(meta) THEN game
        ELSE [k \in EntryKeys |->
                IF k \in RestoredKeys
                   /\ kept(k) # (IF k \in EntryListKeys THEN << >> ELSE "")
                THEN kept(k) ELSE linked[k]]

\* the stored entries the function is called for
Entries ==
    [app_id : {"", "7"},
     description : {"", "d"},
     steam_link : {NoKey},
     microtrailer_cache_path : {NoKey, "", "p"},
     image_cache_paths : {NoList, << >>, <<"c1">>},
     savegame_locations : {NoList, << >>, <<"s1">>},
     savegame_location : {NoList, <<"s0">>}]

\* the metadata dicts it is called with
Metadatas ==
    [app_id : {NoKey, "", "9", "N/A"},
     description : {NoKey, "e"},
     steam_link : {NoKey, "L"},
     microtrailer_cache_path : {NoKey, "", "q"},
     image_cache_paths : {NoList, << >>, <<"c2">>},
     savegame_locations : {NoList, << >>, <<"s2">>},
     savegame_location : {NoList}]

InitApply ==
    /\ MergeIdle
    /\ ResolveIdle
    /\ BatchIdle
    /\ entry \in Entries
    /\ metadata \in Metadatas
    /\ applied = << >>

CallMergeAndApply ==
    /\ applied = << >>
    /\ applied' = <<merge_and_apply_metadata(entry, metadata)>>
    /\ UNCHANGED <<entry, metadata, mergeVars, resolveVars, batchVars>>

NextApply == CallMergeAndApply

SpecApply == InitApply /\ [][NextApply]_vars

(***************************************************************************)
(* PART 5 - the threshold of a batch run (gui.py): scrape_all passes its   *)
(* auto_accept_score to _start_scrape_chunk (4251, 4361, 4385), which      *)
(* creates ScrapeBatchWorker(chunk, self.games) (4283); the worker scrapes *)
(* a row with scrape_igdb_then_steam(None, title, auto_accept_score=92)    *)
(* (798-804).                                                              *)
(***************************************************************************)
\* the values scrape_all can be called with
ThresholdInputs == {60, auto_accept_score - 1, auto_accept_score, 100}

\* the threshold ScrapeBatchWorker.run scrapes a row with, given the one
\* scrape_all was called with: the literal of line 802
WorkerThreshold(passed) == 92

\* ScrapeBatchWorker.run, lines 796-835, for one row without app_id: what
\* row_finished carries, a record, the __candidates__ dict, or {} ("error")
ScrapeRow(e, passed) ==
    scrape_igdb_then_steam(e, WorkerThreshold(passed), NoId, NoId)

InitThreshold ==
    /\ MergeIdle
    /\ BatchIdle
    /\ ApplyIdle
    /\ env \in Environments
    /\ givenIgdbId = NoId
    /\ givenAppId = NoId
    /\ givenScore \in ThresholdInputs
    /\ rop = "idle"
    /\ rout = NoOutcome

\* scrape_all(givenScore) over a backlog of one row, up to the row's
\* row_finished
ScrapeAllRow == Returns("scrape_all", ScrapeRow(env, givenScore))

NextThreshold == ScrapeAllRow

SpecThreshold == InitThreshold /\ [][NextThreshold]_vars

(***************************************************************************)
(* PART 4 - the search endpoints (scraping.py): _http_get,                 *)
(* _steam_search_api, _steam_search_html, find_candidates_for_title,       *)
(* _get_igdb_token, _igdb_query and find_candidates_for_title_igdb, with   *)
(* the answers of the network drawn from the environment.                  *)
(***************************************************************************)
HTTP_RETRIES == 2

\* the depth of the interpreter's call stack at which a further call raises
\* RecursionError (1000 by default, scaled)
RecursionLimit == 3

\* what one request can end in: a 200 with a decodable body, a 200 whose
\* body does not decode, another status, or no response at all
Replies == {"ok", "bad_body", "status_500", "no_response"}

\* the answers to the successive attempts of one _http_get call
ReplySequences ==
    {[i \in 1..(HTTP_RETRIES + 1) |-> r] : r \in Replies}
        \cup {<<"no_response", "status_500", "ok">>}

\* what the endpoint finds for the title when it answers
SearchHits ==
    <<[id |-> "a1", score |-> 60, exact |-> FALSE],
      [id |-> "a2", score |-> auto_accept_score, exact |-> FALSE]>>

\* _http_get, lines 68-79: the first attempt answered with status 200, or
\* None ("none") when no attempt is
RECURSIVE http_get(_)
http_get(replies) ==
    IF replies = << >> THEN "none"
    ELSE IF Head(replies) \in {"ok", "bad_body"} THEN Head(replies)
    ELSE http_get(Tail(replies))

\* a call that raised: the exception leaves the function
Raises(err) == [Outcome("raise", EmptyDict, << >>) EXCEPT !.id = err]

ListOutcome(items) == Outcome("list", EmptyDict, items)

\* _steam_search_api, lines 151-173: r.json() is guarded by
\* "except json.JSONDecodeError" alone
steam_search_api(e) ==
    LET r == http_get(e.apiReplies)
    IN  IF r = "none" THEN ListOutcome(<< >>)
        ELSE IF r = "bad_body"
             THEN IF e.jsonErrIsJsonDecodeError THEN ListOutcome(<< >>)
                  ELSE Raises("JSONDecodeError")
        ELSE ListOutcome(SearchHits)

\* _steam_search_html, lines 176-203: a page without result rows gives []
steam_search_html(e) ==
    LET r == http_get(e.htmlReplies)
    IN  IF r = "ok" THEN ListOutcome(SearchHits) ELSE ListOutcome(<< >>)

\* find_candidates_for_title, lines 206-237
find_candidates_for_title(e) ==
    LET api == steam_search_api(e)
        candidates == IF api.cands = << >> THEN steam_search_html(e) ELSE api
    IN  IF ~e.title_ok THEN ListOutcome(<< >>)
        ELSE IF api.kind = "raise" THEN api
        ELSE ListOutcome(SortDesc(candidates.cands))

\* _igdb_query, lines 482-517, as the call at depth `depth` of the stack:
\* no token gives None, a 401 clears the cached token and calls _igdb_query
\* again, r.json() is guarded by "except requests.RequestException" alone
RECURSIVE igdb_query(_, _)
igdb_query(e, depth) ==
    IF depth > RecursionLimit THEN Raises("RecursionError")
    ELSE IF depth > e.tokens THEN Outcome("None", EmptyDict, << >>)
    ELSE IF depth <= e.rejections THEN igdb_query(e, depth + 1)
    ELSE IF e.igdbReply = "ok" THEN ListOutcome(SearchHits)
    ELSE IF e.igdbReply = "bad_body" /\ ~e.jsonErrIsRequestException
         THEN Raises("JSONDecodeError")
    ELSE Outcome("None", EmptyDict, << >>)

\* find_candidates_for_title_igdb, lines 538-625: "_igdb_query(...) or []"
\* with no exception handler around it
find_candidates_for_title_igdb(e) ==
    LET results == igdb_query(e, 1)
    IN  IF ~e.title_ok THEN ListOutcome(<< >>)
        ELSE IF results.kind = "raise" THEN results
        ELSE ListOutcome(SortDesc(results.cands))

\* the title, the installed requests library (what r.json() raises on an
\* undecodable body) and the network's answers: tokens is how many
\* successive _get_igdb_token calls yield a token, rejections how many
\* successive IGDB requests are answered 401 before igdbReply
SearchEnvironments ==
    [title_ok : BOOLEAN,
     jsonErrIsJsonDecodeError : BOOLEAN,
     jsonErrIsRequestException : BOOLEAN,
     apiReplies : ReplySequences,
     htmlReplies : ReplySequences,
     tokens : 0..RecursionLimit,
     rejections : 0..RecursionLimit,
     igdbReply : Replies]

InitSearch ==
    /\ MergeIdle
    /\ BatchIdle
    /\ ApplyIdle
    /\ env \in SearchEnvironments
    /\ givenIgdbId = NoId
    /\ givenAppId = NoId
    /\ givenScore = auto_accept_score
    /\ rop = "idle"
    /\ rout = NoOutcome

CallFindCandidatesForTitle ==
    Returns("find_candidates_for_title", find_candidates_for_title(env))

CallFindCandidatesForTitleIgdb ==
    Returns("find_candidates_for_title_igdb", find_candidates_for_title_igdb(env))

\* _igdb_query called with no call of it on the stack
CallIgdbQuery ==
    Returns("_igdb_query", igdb_query(env, 1))

NextSearch ==
    \/ CallFindCandidatesForTitle
    \/ CallFindCandidatesForTitleIgdb
    \/ CallIgdbQuery

SpecSearch == InitSearch /\ [][NextSearch]_vars

(***************************************************************************)
(* Properties of merge_metadata                                            *)
(***************************************************************************)
BothMerged == mergeDone = {"SL", "LS"}

\* the claims speak of a store-tagged and a library-tagged record; the
\* reading most favourable to them is a record that carries the markers
\* of its own source only
CleanlyTagged == StoreOnly(storeRec) /\ LibraryOnly(libRec)

\* first occurrences of a sequence, in order
RECURSIVE Distinct(_)
Distinct(seq) ==
    IF seq = << >> THEN << >>
    ELSE LET rest == Distinct(Tail(seq))
         IN  <<Head(seq)>> \o SelectSeq(rest, LAMBDA x : x # Head(seq))

ItemsOf(r, k) == IF HasKey(r, k) THEN r[k] ELSE << >>

\* C1: for a store-tagged and a library-tagged record, merge_metadata(a, b)
\* and merge_metadata(b, a) hold the same value in every scalar field.
C1_ScalarOrderIndependent ==
    (BothMerged /\ CleanlyTagged) =>
        \A k \in ScalarKeys : mergedSL[k] = mergedLS[k]

\* C2: in both argument orders the merged screenshots and trailers are the
\* store items in their order followed by the library items not already
\* present, without duplicates.
C2_StoreItemsFirst ==
    CleanlyTagged =>
        \A k \in ListKeys :
            LET expected == Distinct(ItemsOf(storeRec, k) \o ItemsOf(libRec, k))
            IN  /\ "SL" \in mergeDone => ItemsOf(mergedSL, k) = expected
                /\ "LS" \in mergeDone => ItemsOf(mergedLS, k) = expected

\* C3: for both identifiers and both argument orders, if either input
\* carries a non-empty identifier the merged record carries a non-empty one.
C3_IdNonClobber ==
    \A k \in IdKeys :
        (Truthy(storeRec, k) \/ Truthy(libRec, k)) =>
            /\ "SL" \in mergeDone => Truthy(mergedSL, k)
            /\ "LS" \in mergeDone => Truthy(mergedLS, k)

\* C3 witness: the primary holds an empty store identifier, the secondary a
\* populated one, and both calls have returned the populated one
C3_Witness ==
    /\ BothMerged
    /\ storeRec.steam_app_id = ""
    /\ libRec.steam_app_id = "43"
    /\ mergedSL.steam_app_id = "43"
    /\ mergedLS.steam_app_id = "43"

\* C4: for every scalar field other than description the merged value is
\* the store record's value when that is non-empty and the library record's
\* value otherwise, in both argument orders.
C4_StoreWinsElseLibrary ==
    CleanlyTagged =>
        \A k \in ScalarKeys \ {"description"} :
            LET expected == IF Truthy(storeRec, k) THEN storeRec[k] ELSE libRec[k]
            IN  /\ "SL" \in mergeDone => mergedSL[k] = expected
                /\ "LS" \in mergeDone => mergedLS[k] = expected

(***************************************************************************)
(* Properties of the identifier resolution                                 *)
(***************************************************************************)
ScoresOf(items) == {items[i].score : i \in 1..Len(items)}

MaxScore(items) == CHOOSE m \in ScoresOf(items) : \A x \in ScoresOf(items) : x <= m

IdsScoring(items, score) == {items[i].id : i \in {j \in 1..Len(items) : items[j].score = score}}

NoExactMatch(items) == \A i \in 1..Len(items) : ~items[i].exact

\* the call searched the library by title (no id given, or an unknown one)
IgdbSearchedByTitle ==
    /\ rop \in {"igdb_scraper", "scrape_igdb_then_steam"}
    /\ (givenIgdbId = NoId \/ ~env.igdbKnowsId)

\* C5: in the fuzzy tier of get_app_id_from_title, get_igdb_id_from_title
\* and igdb_scraper's title search, a top candidate scoring exactly
\* auto_accept_score is accepted and one scoring auto_accept_score - 1 is not.
C5_AutoAcceptInclusive ==
    /\ (rop = "get_app_id_from_title" /\ env.steamResults # << >>) =>
          LET top == MaxScore(env.steamResults)
          IN  /\ top = auto_accept_score =>
                    rout.id \in IdsScoring(env.steamResults, top)
              /\ top = auto_accept_score - 1 => rout.id = NoId
    /\ (rop = "get_igdb_id_from_title" /\ env.candMode = "same"
            /\ env.igdbResults # << >>) =>
          LET top == MaxScore(env.igdbResults)
          IN  /\ top = auto_accept_score =>
                    rout.id \in IdsScoring(env.igdbResults, top)
              /\ top = auto_accept_score - 1 => rout.id = NoId
    /\ (rop = "igdb_scraper" /\ IgdbSearchedByTitle /\ env.igdbResults # << >>
            /\ NoExactMatch(env.igdbResults)) =>
          LET top == MaxScore(env.igdbResults)
          IN  /\ top = auto_accept_score =>
                    /\ rout.kind = "record"
                    /\ rout.meta.igdb_id \in IdsScoring(env.igdbResults, top)
              /\ top = auto_accept_score - 1 => rout.kind = "candidates"

\* C5 witness: igdb_scraper's title search accepted a top candidate whose
\* score is exactly the threshold
C5_Witness ==
    /\ rop = "igdb_scraper"
    /\ IgdbSearchedByTitle
    /\ Len(env.igdbResults) = 2
    /\ NoExactMatch(env.igdbResults)
    /\ MaxScore(env.igdbResults) = auto_accept_score
    /\ rout.kind = "record"
    /\ rout.meta.igdb_id # NoId

SkipDelivered ==
    /\ eventQ # << >>
    /\ Head(eventQ).type = "row_finished"
    /\ Head(eventQ).skip
    /\ eventQ' = Tail(eventQ)

\* C7: a row whose entry already has an app_id when the worker reaches it
\* is skipped, and handling it leaves the entry, the pending manual matches
\* and the counters as they were
C7_SkippedRowChangesNothing ==
    [][SkipDelivered => (games' = games /\ pending' = pending /\ stats' = stats)]_vars

\* worker w passes its cancellation check and starts its next row
RowStarts(w) ==
    /\ workers[w].phase = "loop"
    /\ workers'[w].phase = "scraping" \/ workers'[w].idx > workers[w].idx

\* a worker is created for a chunk of run r
ChunkBegins(r) ==
    /\ Len(workers') > Len(workers)
    /\ workers'[Len(workers')].run = r

\* C8: once Cancel was clicked for a run, no worker of the run starts
\* another row and no further chunk of the run begins
C8_NoWorkAfterCancel ==
    [][\A r \in cancelRequested :
          /\ ~ChunkBegins(r)
          /\ \A w \in 1..Len(workers) : workers[w].run = r => ~RowStarts(w)]_vars

\* C9: the report of a cancelled run accounts for every backlog entry:
\* successful + failed + manual_needed = total
C9_CancelledReportAccountsForAll ==
    \A i \in 1..Len(reports) :
        reports[i].cancelled =>
            reports[i].successful + reports[i].failed + reports[i].manual_needed
                = reports[i].total

Reported(r) == \E i \in 1..Len(reports) : reports[i].run = r

Active(w) == workers[w].phase # "done"

\* the GUI thread has handled the finished signal of worker w
FinishedHandled(w) ==
    /\ workers[w].phase = "done"
    /\ \A j \in 1..Len(eventQ) : ~(eventQ[j].w = w /\ eventQ[j].type = "finished")

AtMostOneActive ==
    \A v, w \in 1..Len(workers) : (Active(v) /\ Active(w)) => v = w

\* C11: chunks run one after the other: at most one worker is active, and
\* a chunk's worker is created only when every earlier chunk of the run has
\* had its finished signal handled, or the run was cancelled
C11_ChunksInSequence ==
    /\ []AtMostOneActive
    /\ [][Len(workers') > Len(workers) =>
            LET r == workers'[Len(workers')].run
            IN  \/ r \in cancelRequested
                \/ \A w \in 1..Len(workers) : workers[w].run = r => FinishedHandled(w)]_vars

\* _process_pending_manual_matches shows the dialog of its next item
DialogOpens ==
    /\ stack' # << >>
    /\ stack'[Len(stack')].k = "pending"
    /\ stack'[Len(stack')].pc = "exec"
    /\ Len(stack') >= Len(stack)
    /\ stack' # stack

\* a chunk is running or still to be started
ChunkWorkLeft ==
    \/ \E w \in 1..Len(workers) : Active(w)
    \/ remaining # << >>
    \/ \E j \in 1..Len(timers) : timers[j].k = "start_chunk"

\* C12: a manual-match dialog opens only when no chunk worker is running
\* and no chunk remains to be started, and the dialogs follow the order in
\* which the rows were queued
C12_ManualAfterChunks ==
    [][DialogOpens =>
          LET fr == stack'[Len(stack')]
          IN  /\ ~ChunkWorkLeft
              /\ \A j \in 1..(fr.i - 1) : processed'[fr.items[j].obj]]_vars

\* the frames of _process_pending_manual_matches whose dialog is open
OpenDialogs == {j \in 1..Len(stack) : stack[j].k = "pending" /\ stack[j].pc = "exec"}

\* C13: at most one manual-match dialog of the batch is open at a time, and
\* no queued entry is shown in two dialogs
C13_OneDialogAtATime ==
    /\ Cardinality(OpenDialogs) <= 1
    /\ \A j, k \in OpenDialogs :
          stack[j].items[stack[j].i].obj = stack[k].items[stack[k].i].obj => j = k

\* the GUI thread handles a row_started or row_finished signal
RowEventDelivered ==
    /\ eventQ # << >>
    /\ Head(eventQ).type \in {"row_started", "row_finished"}
    /\ eventQ' = Tail(eventQ)

\* the stall timer of worker w's chunk expires
StallExpires(w) ==
    /\ workers[w].stall
    /\ ~workers'[w].stall
    /\ eventQ' = eventQ
    /\ stack' = stack

\* C14: every row_started and row_finished restarts the chunk's stall
\* timer, and its expiry leaves the cancellation flags, the worker, the
\* chunk queue, the pending manual matches, the counters and the entries
\* as they were
C14_StallWatchdogOnlyWarns ==
    [][/\ RowEventDelivered => workers'[Head(eventQ).w].stall
       /\ \A w \in 1..Len(workers) :
             StallExpires(w) =>
                /\ workers' = [workers EXCEPT ![w].stall = FALSE]
                /\ UNCHANGED <<games, cancelFlag, remaining, pending, processed,
                               stats, timers, reports>>]_vars

\* a worker is scraping a row whose row_started was handled, nobody
\* cancelled, and the stall timer is no longer running: it has expired
C14_Witness ==
    \E w \in 1..Len(workers) :
        /\ workers[w].phase = "scraping"
        /\ ~workers[w].stall
        /\ cancelRequested = {}
        /\ \A j \in 1..Len(eventQ) : eventQ[j].w # w

\* a worker of run r has emitted its error signal
RunErrored(r) == \E w \in 1..Len(workers) : workers[w].run = r /\ workers[w].errored

ReportsOf(r) == {i \in 1..Len(reports) : reports[i].run = r}

\* C15: after a worker's fatal error no further chunk of the run is
\* started, and the run shows a single report
C15_FatalErrorAborts ==
    /\ [][\A r \in 1..nRuns : RunErrored(r) => ~ChunkBegins(r)]_vars
    /\ [](\A r \in 1..nRuns : RunErrored(r) => Cardinality(ReportsOf(r)) <= 1)

\* C16: whatever result is applied to the entries, an entry's non-empty
\* app_id and non-empty igdb_id are never replaced by an empty value
C16_IdsNeverEmptied ==
    [][\A i \in 1..Len(games) :
          /\ games[i].app_id # "" => games'[i].app_id # ""
          /\ games[i].igdb_id # "" => games'[i].igdb_id # ""]_vars

\* an entry holds the store id the user chose and the library id of a
\* record the batch scraped: one of the two was applied to the entry
\* without the other id and left it standing
C16_Witness ==
    \E i \in 1..Len(games) : games[i].app_id = "u" /\ games[i].igdb_id = "i"

\* the steam_app_id of the record igdb_scraper returned to the pipeline
CrossReference == igdb_scraper(env, auto_accept_score, givenIgdbId).meta.steam_app_id

\* C17: scrape_igdb_then_steam takes the store id from the first tier that
\* has one: a supplied steam_app_id is used as it is and nothing else is
\* read; else the id of the library record is used and no title search
\* runs; the title search runs only when both are missing
C17_StoreIdShortCircuit ==
    (rop = "scrape_igdb_then_steam" /\ rout.kind = "record") =>
        /\ givenAppId # NoId =>
              rout.storeId = givenAppId /\ rout.tiers = <<"provided">>
        /\ (givenAppId = NoId /\ CrossReference # NoId) =>
              rout.storeId = CrossReference /\ rout.tiers = <<"provided", "igdb">>
        /\ (givenAppId = NoId /\ CrossReference = NoId) =>
              /\ rout.storeId = get_app_id_from_title(env.steamResults, auto_accept_score)
              /\ rout.tiers = <<"provided", "igdb", "title_search">>

\* a supplied store id was used although the library record carries
\* another one and the title search would have accepted a third
C17_Witness ==
    /\ rop = "scrape_igdb_then_steam"
    /\ rout.kind = "record"
    /\ givenAppId # NoId
    /\ CrossReference \notin {NoId, givenAppId}
    /\ get_app_id_from_title(env.steamResults, auto_accept_score) \notin {NoId, givenAppId}
    /\ rout.storeId = givenAppId

\* a search of the Steam endpoints got no usable answer: neither the API
\* nor the result page was fetched and decoded
SteamSearchFailed ==
    /\ http_get(env.apiReplies) # "ok"
    /\ http_get(env.htmlReplies) # "ok"

\* a search of IGDB got no usable answer: a request ended in no response, a
\* status other than 200 or an undecodable body, or every request the call
\* made was rejected with 401
IgdbSearchFailed ==
    /\ env.tokens > env.rejections
    /\ env.igdbReply # "ok"
    \/ /\ env.rejections >= RecursionLimit
       /\ env.tokens >= RecursionLimit

\* C18: when the search endpoint of a source fails (no response, a status
\* other than 200, a rejected credential, an undecodable body), the
\* candidate search returns the empty list and raises nothing to its caller.
C18_SearchFailureGivesEmptyList ==
    /\ (rop = "find_candidates_for_title" /\ env.title_ok /\ SteamSearchFailed)
          => rout = ListOutcome(<< >>)
    /\ (rop = "find_candidates_for_title_igdb" /\ env.title_ok /\ IgdbSearchFailed)
          => rout = ListOutcome(<< >>)

\* the description value is one of the two inputs' and no shorter than either
LongerDescription(merged) ==
    /\ merged.description \in {storeRec.description, libRec.description}
    /\ StrLen(merged.description) >= StrLen(storeRec.description)
    /\ StrLen(merged.description) >= StrLen(libRec.description)

C20_SourceSignatureDetectable ==
    /\ rop = "get_store_metadata" => StoreOnly(rout.meta)
    /\ (rop = "igdb_scraper" /\ rout.kind = "record") => LibraryOnly(rout.meta)

\* C21: the value passed to scrape_all(auto_accept_score) is the threshold
\* against which every row of the run is auto-accepted or escalated: the
\* row's result is the one the pipeline gives for the passed threshold.
C21_ThresholdIsRunInput ==
    rop = "scrape_all" =>
        rout = scrape_igdb_then_steam(env, givenScore, NoId, NoId)

\* the chunks scrape_all has just built: the one handed to the first worker
\* and those left in _remaining_chunks
ChunksBuilt == <<workers'[Len(workers')].rows>> \o remaining'

RECURSIVE Flatten(_)
Flatten(chunks) ==
    IF chunks = << >> THEN << >> ELSE Head(chunks) \o Flatten(Tail(chunks))

\* the indices of the entries without app_id
Backlog == {i \in Rows : games[i].app_id = ""}

\* C22: scrape_all partitions the backlog exactly: every index whose app_id
\* is empty is in exactly one chunk, no index with an app_id is in any chunk,
\* every chunk holds between 1 and CHUNK_SIZE indices, the chunks
\* concatenated give the backlog indices in ascending order, and total is
\* the backlog size.
C22_BacklogPartitionedExactly ==
    [][nRuns' = nRuns + 1 =>
        LET flat == Flatten(ChunksBuilt)
        IN  /\ {flat[j] : j \in 1..Len(flat)} = Backlog
            /\ Len(flat) = Cardinality(Backlog)
            /\ \A j, k \in 1..Len(flat) : j < k => flat[j] < flat[k]
            /\ \A c \in 1..Len(ChunksBuilt) :
                   Len(ChunksBuilt[c]) \in 1..CHUNK_SIZE
            /\ stats'[nRuns'].total = Cardinality(Backlog)]_vars

\* C22 witness: a backlog larger than a chunk has been split into a full
\* chunk, handed to the first worker, and a remainder
C22_Witness ==
    /\ nRuns = 1
    /\ Len(workers) = 1
    /\ Len(workers[1].rows) = CHUNK_SIZE
    /\ Len(remaining) = 1
    /\ Len(remaining[1]) = Cardinality(Backlog) - CHUNK_SIZE

\* the events of worker w still queued, in emission order
EventsOf(w) == SelectSeq(eventQ, LAMBDA e : e.w = w)

\* the position of a row in the worker's chunk
PosIn(rows, row) == CHOOSE j \in 1..Len(rows) : rows[j] = row

\* what may follow event a of worker w directly: its row's row_finished
\* after a row_started, a later row's row_started or the end of the run
\* after a row_finished, finished after error, nothing after finished
MayFollow(w, a, b) ==
    CASE a.type = "row_started" -> b.type = "row_finished" /\ b.row = a.row
      [] a.type = "row_finished" ->
            \/ b.type \in {"finished", "error"}
            \/ /\ b.type = "row_started"
               /\ PosIn(workers[w].rows, a.row) < PosIn(workers[w].rows, b.row)
      [] a.type = "error" -> b.type = "finished"
      [] OTHER -> FALSE

\* the queued events of every worker are in the order of the claim, and a
\* row_started with nothing after it belongs to the row being scraped
QueueOrdered ==
    \A w \in 1..Len(workers) :
        LET q == EventsOf(w)
            wk == workers[w]
        IN  /\ \A j \in 1..(Len(q) - 1) : MayFollow(w, q[j], q[j + 1])
            /\ (q # << >> /\ q[Len(q)].type = "row_started") =>
                   wk.phase = "scraping" /\ wk.rows[wk.idx] = q[Len(q)].row
            /\ (q # << >> /\ q[Len(q)].type = "finished") <=>
                   (wk.phase = "done" /\ q # << >>)

\* the events a step appends to the queue
Emitted == SubSeq(eventQ', Len(eventQ) + 1, Len(eventQ'))

\* a step of worker w emits for the row the loop is at: row_started when the
\* loop reaches it, row_finished once for the row started last, and
\* finished only when run ends, after which w emits nothing
EmitsInOrder(w) ==
    LET wk == workers[w]
        new == SelectSeq(Emitted, LAMBDA e : e.w = w)
        types == [j \in 1..Len(new) |-> new[j].type]
    IN  (Len(eventQ') > Len(eventQ) /\ new # << >>) =>
            /\ wk.phase # "done"
            /\ wk.phase = "scraping" =>
                   /\ types = <<"row_finished">>
                   /\ new[1].row = wk.rows[wk.idx]
                   /\ workers'[w].idx = wk.idx + 1
            /\ wk.phase = "loop" =>
                   \/ /\ types \in {<<"finished">>, <<"error", "finished">>}
                      /\ workers'[w].phase = "done"
                   \/ /\ types = <<"row_started">>
                      /\ new[1].row = wk.rows[wk.idx]
                      /\ workers'[w].phase = "scraping"
                      /\ workers'[w].idx = wk.idx
                   \/ /\ types = <<"row_started", "row_finished">>
                      /\ new[1].row = wk.rows[wk.idx]
                      /\ new[2].row = wk.rows[wk.idx]
                      /\ workers'[w].idx = wk.idx + 1

\* C23: within one chunk the worker emits row-started and row-finished in
\* chunk index order, every row-started is followed by exactly one
\* row-finished of the same row before the next row-started, and finished
\* is emitted exactly once, after all row events.
C23_RowEventsInOrder ==
    /\ []QueueOrdered
    /\ [][\A w \in 1..Len(workers) : EmitsInOrder(w)]_vars

\* C23 witness: a worker has run through a chunk of two rows and ended: its
\* finished event is queued behind the last row's row_finished
C23_Witness ==
    \E w \in 1..Len(workers) :
        LET q == EventsOf(w)
        IN  /\ workers[w].phase = "done"
            /\ workers[w].idx = 3
            /\ ~workers[w].cancelled
            /\ Len(q) >= 2
            /\ q[Len(q)].type = "finished"
            /\ q[Len(q) - 1].type = "row_finished"
            /\ q[Len(q) - 1].row = workers[w].rows[2]

\* a manual-match dialog of the batch returns rejected, or accepted with no
\* chosen candidate: the step of AnswerDialogWith("failed")
DialogFails ==
    /\ stack # << >>
    /\ Top.k = "pending"
    /\ Top.pc = "exec"
    /\ stack' = Append(Pop(stack), [Top EXCEPT !.pc = "pe"])
    /\ stats'[Top.run].successful = stats[Top.run].successful

\* C24: in the manual-match phase a cancelled dialog, or one accepted with
\* no chosen candidate, adds exactly one to failed, leaves successful and
\* the entries unchanged and marks the queue item processed; no dialog is
\* opened for an item that is marked processed.
C24_RejectedMatchCountsFailed ==
    /\ [][DialogFails =>
            /\ stats' = [stats EXCEPT ![Top.run].failed = @ + 1]
            /\ games' = games
            /\ processed'[Top.items[Top.i].obj]]_vars
    /\ [][DialogOpens =>
            LET fr == stack'[Len(stack')]
            IN  ~processed[fr.items[fr.i].obj]]_vars

\* C24 witness: the first dialog of a run was rejected: failed is 1,
\* successful 0, the item is marked processed and the loop goes on
C24_Witness ==
    /\ stack # << >>
    /\ Top.k = "pending"
    /\ Top.pc = "pe"
    /\ stats[Top.run].failed = 1
    /\ stats[Top.run].successful = 0
    /\ processed[Top.items[Top.i].obj]

\* worker w moves on inside run(): its loop position or phase changes
WorkerSteps(w) ==
    \/ workers'[w].idx # workers[w].idx
    \/ workers'[w].phase # workers[w].phase

\* the GUI thread handles a row_finished signal
RowFinishedDelivered ==
    /\ eventQ # << >>
    /\ Head(eventQ).type = "row_finished"
    /\ eventQ' = Tail(eventQ)

\* a match dialog returns to the handler that opened it
DialogReturns ==
    /\ stack # << >>
    /\ Top.k \in {"pending", "match_row"}
    /\ Top.pc = "exec"
    /\ Pop(stack') = Pop(stack) \/ stack' = Pop(stack)

\* the counters of the runs started so far
Counters(st) ==
    [r \in 1..Len(st) |-> <<st[r].successful, st[r].failed, st[r].manual_needed>>]

\* C25: the chunk worker never mutates the entry list: a step of run() only
\* moves the worker on and emits events, and every change of an entry, every
\* item added to the pending manual matches and every change of a counter
\* is made by a GUI-thread handler: on_row_finished, or the handler of a
\* match dialog that returned.
C25_WorkerOnlyReports ==
    /\ [][\A w \in 1..Len(workers) :
             WorkerSteps(w) =>
                /\ UNCHANGED <<games, pending, processed, stats, remaining,
                               cancelFlag, reports>>
                /\ Len(eventQ') > Len(eventQ)]_vars
    /\ [][(games' # games
            \/ Len(processed') > Len(processed)
            \/ (Len(stats') = Len(stats) /\ Counters(stats') # Counters(stats)))
          => (RowFinishedDelivered \/ DialogReturns)]_vars

\* C25 witness: the worker has scraped a record for a row and reported it;
\* the entry is still as it was because the signal is not yet handled
C25_Witness ==
    \E j \in 1..Len(eventQ) :
        /\ eventQ[j].type = "row_finished"
        /\ eventQ[j].meta = "record_app"
        /\ games[eventQ[j].row].app_id = ""
        /\ workers[eventQ[j].w].idx > 1

\* C26: applying a resolved record to a stored entry preserves the entry's
\* cache linkage and save locations: a non-empty image_cache_paths,
\* microtrailer_cache_path and savegame_locations the entry held before the
\* call have the same value after it, whatever the metadata holds.
C26_CachePathsPreserved ==
    applied # << >> =>
        \A k \in RestoredKeys : NonEmpty(entry, k) => applied[1][k] = entry[k]

\* C26 witness: the metadata held other values for all three keys, the call
\* has returned, wrote the record's description and kept the entry's paths
C26_Witness ==
    /\ applied # << >>
    /\ \A k \in RestoredKeys : NonEmpty(entry, k) /\ NonEmpty(metadata, k)
    /\ applied[1].description = "e"
    /\ applied[1].image_cache_paths = <<"c1">>

\* C27: every run produces its completion report exactly once, from the
\* stats its own scrape_all created: no run has two reports, and a report
\* shows the counters of its run as they are when _finish_scraping is called.
C27_OneReportPerRun ==
    /\ [](\A r \in 1..nRuns : Cardinality(ReportsOf(r)) <= 1)
    /\ [][Len(reports') > Len(reports) =>
            LET rep == reports'[Len(reports')]
            IN  /\ rep.run \in 1..nRuns
                /\ rep.total = stats'[rep.run].total
                /\ rep.successful = stats'[rep.run].successful
                /\ rep.failed = stats'[rep.run].failed]_vars

\* the rows of run r counted so far
Counted(r) == stats[r].successful + stats[r].failed + stats[r].manual_needed

\* a dialog of the manual phase returns and its outcome is counted
PendingDialogReturns ==
    /\ stack # << >>
    /\ Top.k = "pending"
    /\ Top.pc = "exec"
    /\ Pop(stack') = Pop(stack)

\* C28: counter accounting.  In every state of a run successful + failed +
\* manual_needed <= total; a queued row is counted at most once (the
\* outcome of a dialog is counted only for an item not yet marked
\* processed); and the report of a run that was not cancelled shows
\* successful + failed + manual_needed = total, with no unprocessed item
\* left in the pending manual matches.
C28_CounterAccounting ==
    /\ [](\A r \in 1..nRuns : Counted(r) <= stats[r].total)
    /\ [][PendingDialogReturns => ~processed[Top.items[Top.i].obj]]_vars
    /\ [][(Len(reports') > Len(reports) /\ ~reports'[Len(reports')].cancelled) =>
            LET rep == reports'[Len(reports')]
            IN  /\ rep.successful + rep.failed + rep.manual_needed = rep.total
                /\ \A j \in 1..Len(processed) : processed[j]]_vars

\* the completion report of run r was produced after a cancel
CancelledReported(r) ==
    \E i \in 1..Len(reports) : reports[i].run = r /\ reports[i].cancelled

\* on_row_finished receives the result of a row of a run whose report
\* after a cancel was already produced
LateRowResult ==
    /\ eventQ # << >>
    /\ NextEvent.type = "row_finished"
    /\ CancelledReported(workers[NextEvent.w].run)
    /\ eventQ' = Tail(eventQ)

\* _process_pending_manual_matches opens the dialog of a queue item of run r
PendingDialogOpens(r) ==
    /\ stack' # << >>
    /\ stack'[Len(stack')].k = "pending"
    /\ stack'[Len(stack')].pc = "exec"
    /\ stack'[Len(stack')].run = r
    /\ stack' # stack

\* C29: once the report of a cancelled run was produced, the result of the
\* run's row still in flight changes nothing: its delivery modifies no
\* entry, changes no counter and adds no item to the pending manual
\* matches, and no manual-match dialog of the run is opened any more.
C29_LateResultChangesNothing ==
    /\ [][LateRowResult =>
            /\ games' = games
            /\ stats' = stats
            /\ pending' = pending
            /\ processed' = processed]_vars
    /\ [][\A r \in 1..nRuns :
            CancelledReported(r) => ~PendingDialogOpens(r)]_vars

\* the library endpoint answers 401 to every request _igdb_query can make
AlwaysRejected == env.rejections >= RecursionLimit

\* C30: _igdb_query ends for every sequence of server responses, and when
\* the library endpoint answers 401 to every request, also after every
\* credential refresh, the call gives up and returns None.
C30_IgdbQueryGivesUpOn401 ==
    (rop = "_igdb_query" /\ AlwaysRejected) => rout.kind = "None"

====
